---- MODULE Spec2Model ----
(***************************************************************************)
(* Model of pyFlowStat/TriSurface.py: the TriSurface object, its two       *)
(* construction methods, the plane fit (genPlaneData), the view transform  *)
(* (genTransData) and the foamFile parser (parseFoamFile).                 *)
(*                                                                         *)
(* Numbers.  The program computes in IEEE doubles.  The model computes in  *)
(* exact arithmetic: integers for the inputs and for everything obtained   *)
(* from them by +, - and *, and normalised fractions <<n, d>> for the      *)
(* entries of the inverted matrix and of the view coordinates.  A value    *)
(* that is unset (Python None) is the empty sequence <<>>, a value that is *)
(* set is the one-element sequence <<v>>.                                  *)
(***************************************************************************)
EXTENDS Integers, Sequences, FiniteSets, TLC

(* ------------------------------ bounds --------------------------------- *)
\* point coordinates range over 0..MaxCoord
MaxCoord == 1
\* view direction components range over -1..MaxDir
MaxDir == 1
\* longest point list handed to the plane fit
MaxPts == 4
\* number of method calls made on one object
MaxCalls == 2
\* the longest file handed to parseFoamFile directly, in lines
MaxLines == 3

(* ----------------------------- arithmetic ------------------------------ *)
Abs(n) == IF n < 0 THEN -n ELSE n

RECURSIVE GCD(_, _)
GCD(a, b) == IF b = 0 THEN a ELSE GCD(b, a % b)

\* the fraction n/d (d # 0) in lowest terms with a positive denominator
Frac(n, d) ==
  LET g == GCD(Abs(n), Abs(d))
      s == IF d < 0 THEN -1 ELSE 1
  IN  <<(s * n) \div g, (s * d) \div g>>

FracOfInt(n) == <<n, 1>>
FracAdd(p, q) == Frac(p[1] * q[2] + q[1] * p[2], p[2] * q[2])
FracMul(p, q) == Frac(p[1] * q[1], p[2] * q[2])

RECURSIVE SumSeq(_)
SumSeq(s) == IF s = <<>> THEN 0 ELSE Head(s) + SumSeq(Tail(s))

RECURSIVE FracSum(_)
FracSum(s) == IF s = <<>> THEN <<0, 1>> ELSE FracAdd(Head(s), FracSum(Tail(s)))

\* np.dot of two integer vectors of the same length
dot(u, v) == SumSeq([i \in 1..Len(u) |-> u[i] * v[i]])

\* np.cross of two 3-vectors
cross(u, v) ==
  << u[2] * v[3] - u[3] * v[2],
     u[3] * v[1] - u[1] * v[3],
     u[1] * v[2] - u[2] * v[1] >>

\* u - v, component-wise
vecSub(u, v) == [i \in 1..Len(u) |-> u[i] - v[i]]

\* np.dot(M, v): a matrix of fractions times an integer vector
matVecFrac(M, v) ==
  [i \in 1..Len(M) |->
     FracSum([j \in 1..Len(v) |-> FracMul(M[i][j], FracOfInt(v[j]))])]

\* the square matrix M without row r and column c
Minor(M, r, c) ==
  LET n == Len(M)
      keep(k, x) == IF k < x THEN k ELSE k + 1
  IN  [i \in 1..(n - 1) |-> [j \in 1..(n - 1) |-> M[keep(i, r)][keep(j, c)]]]

Sign(k) == IF k % 2 = 0 THEN 1 ELSE -1

\* determinant of a square integer matrix, by expansion along the first row
RECURSIVE Det(_)
Det(M) ==
  IF Len(M) = 1 THEN M[1][1]
  ELSE SumSeq([j \in 1..Len(M) |-> Sign(1 + j) * M[1][j] * Det(Minor(M, 1, j))])

Ok(v) == [raised |-> "none", value |-> <<v>>]
Raise(e) == [raised |-> e, value |-> <<>>]

\* the inverse of M, whose determinant is d: adjugate over determinant
inverseWithDet(M, d) ==
  IF d = 0 THEN Raise("LinAlgError")
  ELSE Ok([i \in 1..Len(M) |-> [j \in 1..Len(M) |->
             Frac(Sign(i + j) * Det(Minor(M, j, i)), d)]])

\* np.linalg.inv: the inverse of a square matrix, LinAlgError when singular
linalgInv(M) == inverseWithDet(M, Det(M))

(* --------------------------- TriSurface methods ------------------------ *)
\* affineVec: vec with a trailing 1
affineVec(vec) == [i \in 1..(Len(vec) + 1) |-> IF i <= Len(vec) THEN 0 + vec[i] ELSE 1]

\* affineMat with the translation written into the last row
affineMat_lastRow(mat, trans) ==
  LET nbl == Len(mat)
      nbr == Len(mat)
  IN  [i \in 1..(nbl + 1) |-> [j \in 1..(nbr + 1) |->
         IF i <= nbl /\ j <= nbl THEN 0 + mat[i][j]
         ELSE IF i = nbl + 1 /\ j <= nbr THEN 0 + trans[j]
         ELSE IF i = nbl + 1 /\ j = nbr + 1 THEN 1
         ELSE 0]]

\* affineMat: [[mat, trans], [0 .. 0, 1]]
affineMat(mat, trans) ==
  LET nbl == Len(mat)
      nbr == Len(mat)
  IN  [i \in 1..(nbl + 1) |-> [j \in 1..(nbr + 1) |->
         IF i <= nbl /\ j <= nbl THEN 0 + mat[i][j]
         ELSE IF j = nbr + 1 /\ i <= nbr THEN 0 + trans[i]
         ELSE IF i = nbl + 1 /\ j = nbr + 1 THEN 1
         ELSE 0]]

\* genPlaneData taking the last point of the list as the third point
genPlaneData_lastPoint(pts) ==
  IF Len(pts) < 3 THEN Raise("IndexError")
  ELSE
    LET v1 == vecSub(pts[2], pts[1])
        v2 == vecSub(pts[Len(pts)], pts[1])
        plNorm == cross(v1, v2)
        plDef0 == <<0 + plNorm[1], 0 + plNorm[2], 0 + plNorm[3], 0>>
        afpt == affineVec(pts[1])
        c == dot(plDef0, afpt)
    IN  Ok([plDef0 EXCEPT ![4] = -c])

\* genPlaneData storing c instead of -c
genPlaneData_plusD(pts) ==
  IF Len(pts) < 3 THEN Raise("IndexError")
  ELSE
    LET v1 == vecSub(pts[2], pts[1])
        v2 == vecSub(pts[3], pts[1])
        plNorm == cross(v1, v2)
        plDef0 == <<0 + plNorm[1], 0 + plNorm[2], 0 + plNorm[3], 0>>
        afpt == affineVec(pts[1])
        c == dot(plDef0, afpt)
    IN  Ok([plDef0 EXCEPT ![4] = c])

\* genPlaneData: (a, b, c, d) of the plane through the first three points
genPlaneData(pts) ==
  IF Len(pts) < 3 THEN Raise("IndexError")
  ELSE
    LET v1 == vecSub(pts[2], pts[1])
        v2 == vecSub(pts[3], pts[1])
        plNorm == cross(v1, v2)
        plDef0 == <<0 + plNorm[1], 0 + plNorm[2], 0 + plNorm[3], 0>>
        afpt == affineVec(pts[1])
        c == dot(plDef0, afpt)
    IN  Ok([plDef0 EXCEPT ![4] = -c])

\* the return statement of genTransData: T is the outcome of the inversion
returnTrans(T, invT, viewBasis) ==
  IF T.raised # "none" THEN Raise(T.raised)
  ELSE Ok([T |-> T.value[1], invT |-> invT, viewBasis |-> viewBasis])

\* invT and T for a view basis and a translation
transOfBasis(viewBasis, translation) ==
  returnTrans(linalgInv(affineMat(viewBasis, translation)),
              affineMat(viewBasis, translation), viewBasis)

\* the view basis: the columns xViewBasis, yViewBasis and their cross product
basisOf(xViewBasis, yViewBasis, zViewBasis) ==
  [i \in 1..3 |-> <<xViewBasis[i], yViewBasis[i], zViewBasis[i]>>]

\* genTransData inverting the basis without the translation
genTransData_noTranslation(pts, anchor, xViewBasis, yViewBasis) ==
  LET viewBasis0 == basisOf(xViewBasis, yViewBasis, cross(xViewBasis, yViewBasis))
      translation == vecSub(anchor, <<0, 0, 0>>)
  IN  returnTrans(linalgInv(affineMat(viewBasis0, <<0, 0, 0>>)),
                  affineMat(viewBasis0, translation), viewBasis0)

\* genTransData catching the inversion error and returning invT for T
genTransData_swallow(pts, anchor, xViewBasis, yViewBasis) ==
  LET viewBasis0 == basisOf(xViewBasis, yViewBasis, cross(xViewBasis, yViewBasis))
      translation == vecSub(anchor, <<0, 0, 0>>)
      invT == affineMat(viewBasis0, translation)
      T == linalgInv(invT)
  IN  IF T.raised # "none"
        THEN Ok([T |-> [i \in 1..4 |-> [j \in 1..4 |-> FracOfInt(invT[i][j])]],
                 invT |-> invT, viewBasis |-> viewBasis0])
      ELSE Ok([T |-> T.value[1], invT |-> invT, viewBasis |-> viewBasis0])

\* genTransData making the y direction orthogonal to the x direction first
genTransData_orthogonal(pts, anchor, xViewBasis, yViewBasis) ==
  transOfBasis(basisOf(xViewBasis,
                       cross(cross(xViewBasis, yViewBasis), xViewBasis),
                       cross(xViewBasis, yViewBasis)),
               vecSub(anchor, <<0, 0, 0>>))

\* genTransData: (T, invT, viewBasis) for the view anchor and directions
genTransData(pts, anchor, xViewBasis, yViewBasis) ==
  transOfBasis(basisOf(xViewBasis, yViewBasis, cross(xViewBasis, yViewBasis)),
               vecSub(anchor, <<0, 0, 0>>))

(* ------------------------------ parseFoamFile -------------------------- *)
\* A line of a file is [comment, match, bad]: whether it starts with '//', the
\* numbers the regex finds in it, and the position among them of the first
\* match that float() rejects, such as '1e' (0 when float() takes them all).
\* A file system maps a path to its lines.
BadLine(c, m, k) == [comment |-> c, match |-> m, bad |-> k]
Line(c, m) == BadLine(c, m, 0)

Files ==
  [ s3   |-> << Line(FALSE, <<3>>), Line(FALSE, <<5>>), Line(FALSE, <<6>>),
                Line(FALSE, <<7>>) >>,
    s1   |-> << Line(FALSE, <<1>>), Line(FALSE, <<5>>) >>,
    p3   |-> << Line(TRUE, <<>>), Line(FALSE, <<3>>), Line(FALSE, <<0, 0, 0>>),
                Line(FALSE, <<1, 0, 0>>), Line(FALSE, <<0, 1, 0>>) >>,
    pcol |-> << Line(FALSE, <<3>>), Line(FALSE, <<0, 0, 0>>),
                Line(FALSE, <<1, 0, 0>>), Line(FALSE, <<2, 0, 0>>) >>,
    p2   |-> << Line(FALSE, <<2>>), Line(FALSE, <<0, 0, 0>>),
                Line(FALSE, <<1, 0, 0>>) >>,
    f1   |-> << Line(FALSE, <<1>>), Line(FALSE, <<3, 0, 1, 2>>) >>,
    f0   |-> << Line(FALSE, <<0>>), Line(TRUE, <<>>) >> ]

\* the loop body of parseFoamFile for one line; st = [catchFirstNb, output,
\* raised]: the two locals, and the exception that has left the loop
parseLine(st, line) ==
  LET match == line.match
  IN  IF st.catchFirstNb = FALSE /\ Len(match) = 1
        THEN [st EXCEPT !.catchFirstNb = TRUE]
      ELSE IF st.catchFirstNb = TRUE /\ Len(match) > 0
        THEN IF line.bad # 0 THEN [st EXCEPT !.raised = "ValueError"]
             ELSE [st EXCEPT !.output = Append(@, match)]
      ELSE st

RECURSIVE parseLines(_, _)
parseLines(st, lines) ==
  IF lines = <<>> \/ st.raised # "none" THEN st
  ELSE parseLines(parseLine(st, Head(lines)), Tail(lines))

\* the end of parseFoamFile: st is the state in which the loop was left.  An
\* exception leaves the function before istream.close()
parseReturn(st) ==
  IF st.raised # "none"
    THEN [raised |-> st.raised, value |-> <<>>, istream |-> "open"]
    ELSE [raised |-> "none", value |-> <<st.output>>, istream |-> "closed"]

\* parseFoamFile on a path that holds file: <<lines>>, or <<>> when the path
\* cannot be opened
parseFile(file) ==
  IF file = <<>>
    THEN [raised |-> "IOError", value |-> <<>>, istream |-> "unopened"]
    ELSE parseReturn(parseLines([catchFirstNb |-> FALSE, output |-> <<>>,
                                 raised |-> "none"], file[1]))

\* parseFoamFile: the rows of the file, IOError when it cannot be opened
parseFoamFile(foamFile) ==
  parseFile(IF foamFile \in DOMAIN Files THEN <<Files[foamFile]>> ELSE <<>>)

\* np.array(rows) is two-dimensional when it has rows (the rows of every file
\* of Files have one length; an empty list gives a one-dimensional array)
is2D(a) == Len(a) > 0

\* a[:, 1:4]
cols1to4(a) ==
  [i \in 1..Len(a) |-> SubSeq(a[i], 2, IF Len(a[i]) < 4 THEN Len(a[i]) ELSE 4)]

(* ------------------------------- the object ---------------------------- *)
VARIABLES
  self,   \* the TriSurface object: a record of its members
  call,   \* the last method called on it, and how it ended
  args,   \* the arguments of a direct call of genPlaneData / genTransData
  ret     \* what that direct call returned: <<>> before the call

vars == <<self, call, args, ret>>

None == <<>>

\* TriSurface.__init__
init(storeMesh) ==
  [ storeMesh  |-> storeMesh,
    varsFile   |-> "",
    pointsFile |-> "",
    facesFile  |-> "",
    vars       |-> None,
    varRank    |-> 0,
    points     |-> None,
    xys        |-> None,
    faces      |-> None,
    plDef      |-> None,
    viewAnchor |-> None,
    viewBasis  |-> None,
    affMat     |-> None,
    invAffMat  |-> None ]

Done(s, e) == [self |-> s, raised |-> e]

\* project filling xys from the last point to the first
project_reversed(pts, affMat) ==
  [i \in 1..Len(pts) |->
     LET ptInA == pts[Len(pts) + 1 - i]
         ptInB == SubSeq(matVecFrac(affMat, affineVec(ptInA)), 1, 3)
     IN  SubSeq(ptInB, 1, 2)]

\* the planar coordinates of pts: the first two components of affMat * [p, 1]
project(pts, affMat) ==
  [i \in 1..Len(pts) |->
     LET ptInA == pts[i]
         ptInB == SubSeq(matVecFrac(affMat, affineVec(ptInA)), 1, 3)
     IN  SubSeq(ptInB, 1, 2)]

\* the storeMesh == True branch once points and faces are set
deriveStored(s, viewAnchor, xViewBasis, yViewBasis) ==
  LET pl == genPlaneData(s.points[1])
  IN  IF pl.raised # "none" THEN Done(s, pl.raised)
      ELSE
        LET s1 == [s EXCEPT !.plDef = pl.value, !.viewAnchor = <<viewAnchor>>]
            tr == genTransData(s1.points[1], s1.viewAnchor[1], xViewBasis, yViewBasis)
        IN  IF tr.raised # "none" THEN Done(s1, tr.raised)
            ELSE
              LET t == tr.value[1]
                  s2 == [s1 EXCEPT !.affMat = <<t.T>>, !.invAffMat = <<t.invT>>,
                                   !.viewBasis = <<t.viewBasis>>]
              IN  Done([s2 EXCEPT !.xys = <<project(s2.points[1], s2.affMat[1])>>],
                       "none")

\* the storeMesh == False branch building the transform at the origin
deriveTransient_originAnchor(s, pts, viewAnchor, xViewBasis, yViewBasis) ==
  LET pl == genPlaneData(pts)
  IN  IF pl.raised # "none" THEN Done(s, pl.raised)
      ELSE
        LET s1 == [s EXCEPT !.plDef = pl.value, !.viewAnchor = <<viewAnchor>>]
            tr == genTransData(pts, <<0, 0, 0>>, xViewBasis, yViewBasis)
        IN  IF tr.raised # "none" THEN Done(s1, tr.raised)
            ELSE
              LET t == tr.value[1]
              IN  Done([s1 EXCEPT !.affMat = <<t.T>>, !.invAffMat = <<t.invT>>,
                                  !.viewBasis = <<t.viewBasis>>], "none")

\* the storeMesh == False branch: pts is the local list of points
deriveTransient(s, pts, viewAnchor, xViewBasis, yViewBasis) ==
  LET pl == genPlaneData(pts)
  IN  IF pl.raised # "none" THEN Done(s, pl.raised)
      ELSE
        LET s1 == [s EXCEPT !.plDef = pl.value, !.viewAnchor = <<viewAnchor>>]
            tr == genTransData(pts, s1.viewAnchor[1], xViewBasis, yViewBasis)
        IN  IF tr.raised # "none" THEN Done(s1, tr.raised)
            ELSE
              LET t == tr.value[1]
              IN  Done([s1 EXCEPT !.affMat = <<t.T>>, !.invAffMat = <<t.invT>>,
                                  !.viewBasis = <<t.viewBasis>>], "none")

\* len(self.vars[1,:]): needs a two-dimensional array with a second row
setVarRank(s) ==
  IF is2D(s.vars[1]) /\ Len(s.vars[1]) >= 2
    THEN Done([s EXCEPT !.varRank = Len(s.vars[1][2])], "none")
    ELSE Done(s, "IndexError")

readFromFoamFile(s, varsFile, pointsFile, facesFile, viewAnchor, xViewBasis, yViewBasis) ==
  LET s0 == [s EXCEPT !.varsFile = varsFile, !.pointsFile = pointsFile,
                      !.facesFile = facesFile]
      pv == parseFoamFile(varsFile)
  IN  IF pv.raised # "none" THEN Done(s0, pv.raised)
      ELSE
        LET r1 == setVarRank([s0 EXCEPT !.vars = pv.value])
            s1 == r1.self
            pp == parseFoamFile(pointsFile)
            pf == parseFoamFile(facesFile)
        IN  IF r1.raised # "none" THEN r1
            ELSE IF pp.raised # "none" THEN Done(s1, pp.raised)
            ELSE IF s1.storeMesh = TRUE THEN
              LET s2 == [s1 EXCEPT !.points = pp.value]
              IN  IF pf.raised # "none" THEN Done(s2, pf.raised)
                  ELSE IF ~is2D(pf.value[1]) THEN Done(s2, "IndexError")
                  ELSE deriveStored([s2 EXCEPT !.faces = <<cols1to4(pf.value[1])>>],
                                    viewAnchor, xViewBasis, yViewBasis)
            ELSE deriveTransient(s1, pp.value[1], viewAnchor, xViewBasis, yViewBasis)

constructFromArray(s, varsArray, pointsArray, facesArray, viewAnchor, xViewBasis, yViewBasis) ==
  LET s0 == [s EXCEPT !.varsFile = "", !.pointsFile = "", !.facesFile = ""]
      r1 == setVarRank([s0 EXCEPT !.vars = <<varsArray>>])
      s1 == r1.self
  IN  IF r1.raised # "none" THEN r1
      ELSE IF s1.storeMesh = TRUE THEN
        deriveStored([s1 EXCEPT !.points = <<pointsArray>>, !.faces = <<facesArray>>],
                     viewAnchor, xViewBasis, yViewBasis)
      ELSE deriveTransient(s1, pointsArray, viewAnchor, xViewBasis, yViewBasis)

\* the check of the array lengths at the head of constructFromArray: it prints
\* and goes on (the statement after the print is the bare name exit)
printsMismatch(varsArray, pointsArray) == Len(varsArray) # Len(pointsArray)

\* readFromVTK: the body is pass
readFromVTK(s, vtkFile, viewAnchor, xViewBasis, yViewBasis) == Done(s, "none")

\* parseVTK: the body is pass
parseVTK(vtkFile) == Ok(None)

(* ------------------------------- inputs -------------------------------- *)
Coords == 0..MaxCoord
Vec3 == {<<a, b, c>> : a \in Coords, b \in Coords, c \in Coords}
DirComps == (-1)..MaxDir
Dir3 == {<<a, b, c>> : a \in DirComps, b \in DirComps, c \in DirComps}

\* the meshes the construction calls are given: prefixes of three point lists
Flat == << <<0, 0, 0>>, <<1, 0, 0>>, <<0, 1, 0>>, <<1, 1, 0>>, <<2, 1, 0>>, <<2, 2, 0>> >>
Collinear == << <<0, 0, 0>>, <<1, 0, 0>>, <<2, 0, 0>> >>
Tilted == << <<1, 0, 0>>, <<0, 1, 0>>, <<0, 0, 1>> >>
Min(a, b) == IF a < b THEN a ELSE b

\* field values: n samples of rank 1
VarsOf(n) == [i \in 1..n |-> <<i + 4>>]

\* (varsArray, pointsArray) of a constructFromArray call
ArrayCases ==
  {<<VarsOf(n), SubSeq(Flat, 1, m)>> : n \in {1, MaxPts}, m \in {2, MaxPts - 1, MaxPts}}
    \cup {<<VarsOf(3), Collinear>>, <<VarsOf(3), Tilted>>}
FacesArrays == {<< <<0, 1, 2>> >>}

\* (varsFile, pointsFile, facesFile) of a readFromFoamFile call
FileCases ==
  { <<"s3", "p3", "f1">>, <<"s3", "pcol", "f1">>, <<"s3", "p2", "f1">>,
    <<"s1", "p3", "f1">>, <<"s3", "p3", "f0">>,
    <<"nofile", "p3", "f1">>, <<"s3", "nofile", "f1">>, <<"s3", "p3", "nofile">> }

\* (viewAnchor, xViewBasis, yViewBasis) of a construction call
ViewCases ==
  { << <<0, 0, 0>>, <<1, 0, 0>>, <<0, 1, 0>> >>,
    << <<1, 0, 0>>, <<1, 0, 0>>, <<0, 1, 0>> >>,
    << <<0, 0, 0>>, <<1, 0, 0>>, <<2, 0, 0>> >>,
    << <<1, 0, 0>>, <<1, 1, 0>>, <<-1, 1, 0>> >> }

\* the direct calls of the two geometry methods
Far == <<MaxCoord, MaxCoord, MaxCoord>>
Copies(t, k) == [i \in 1..k |-> t]
RECURSIVE SeqsOf(_, _)
SeqsOf(S, n) ==
  IF n = 0 THEN {<<>>} ELSE {Append(q, x) : q \in SeqsOf(S, n - 1), x \in S}
\* point lists of length 2..MaxPts: every choice of the first three points,
\* followed by copies of the point Far
PlaneInputs ==
  {Collinear} \cup SeqsOf(Vec3, 2) \cup
  {h \o Copies(Far, k) : h \in SeqsOf(Vec3, 3), k \in 0..(MaxPts - 3)}
TransPts == {SubSeq(Flat, 1, 3), Tilted}
TransAnchors == {<<0, 0, 0>>, <<1, 0, 0>>, Far}
GeoArgs ==
  {[op |-> "genPlaneData", points |-> p] : p \in PlaneInputs} \cup
  {[op |-> "genTransData", points |-> p, viewAnchor |-> a,
    xViewBasis |-> x, yViewBasis |-> y] :
      p \in TransPts, a \in TransAnchors, x \in Dir3, y \in Dir3} \cup
  {[op |-> "genTransData", points |-> Collinear, viewAnchor |-> <<0, 0, 0>>,
    xViewBasis |-> <<1, 0, 0>>, yViewBasis |-> <<2, 0, 0>>]}

(* ----------------------- the object's life: Spec ----------------------- *)
NoCall == [op |-> "__init__", raised |-> "none", printed |-> FALSE,
           nVars |-> 0, nPoints |-> 0, nCalls |-> 0]
NoArgs == [op |-> "none"]

Init ==
  /\ self \in {init(b) : b \in BOOLEAN}
  /\ call = NoCall
  /\ args = NoArgs
  /\ ret = None

\* the end of a method call: the object as the call left it, and how it ended
Returns(op, r, printed, nVars, nPoints) ==
  /\ self' = r.self
  /\ call' = [op |-> op, raised |-> r.raised, printed |-> printed,
              nVars |-> nVars, nPoints |-> nPoints, nCalls |-> call.nCalls + 1]
  /\ UNCHANGED <<args, ret>>

ReadFromFoamFile ==
  /\ call.nCalls < MaxCalls
  /\ \E f \in FileCases, v \in ViewCases :
       Returns("readFromFoamFile",
               readFromFoamFile(self, f[1], f[2], f[3], v[1], v[2], v[3]),
               FALSE, 0, 0)

ConstructFromArray ==
  /\ call.nCalls < MaxCalls
  /\ \E c \in ArrayCases, fa \in FacesArrays, v \in ViewCases :
       Returns("constructFromArray",
               constructFromArray(self, c[1], c[2], fa, v[1], v[2], v[3]),
               printsMismatch(c[1], c[2]), Len(c[1]), Len(c[2]))

ReadFromVTK ==
  /\ call.nCalls < MaxCalls
  /\ \E v \in ViewCases :
       Returns("readFromVTK", readFromVTK(self, "vtk", v[1], v[2], v[3]),
               FALSE, 0, 0)

ParseVTK ==
  /\ call.nCalls < MaxCalls
  /\ Returns("parseVTK", Done(self, parseVTK("vtk").raised), FALSE, 0, 0)

Next == ReadFromFoamFile \/ ConstructFromArray \/ ReadFromVTK \/ ParseVTK

Spec == Init /\ [][Next]_vars

(* ------------------- direct geometry calls: SpecGeo -------------------- *)
GeoInit ==
  /\ self = init(TRUE)
  /\ call = NoCall
  /\ args \in GeoArgs
  /\ ret = None

CallGenPlaneData ==
  /\ args.op = "genPlaneData"
  /\ ret = None
  /\ ret' = <<genPlaneData(args.points)>>
  /\ UNCHANGED <<self, call, args>>

CallGenTransData ==
  /\ args.op = "genTransData"
  /\ ret = None
  /\ ret' = <<genTransData(args.points, args.viewAnchor, args.xViewBasis, args.yViewBasis)>>
  /\ UNCHANGED <<self, call, args>>

GeoNext == CallGenPlaneData \/ CallGenTransData

SpecGeo == GeoInit /\ [][GeoNext]_vars

(* -------------------- direct parser calls: SpecParse ------------------ *)
\* what the regex finds in a line: nothing, one number, three numbers
Matches == {<<>>, <<2>>, <<0, 1, 0>>}
\* the lines: with or without a leading '//', and with the last number
\* written well or written like '1e', which the regex matches and float()
\* rejects
FileLines ==
  {BadLine(c, m, k) : c \in BOOLEAN, m \in Matches, k \in {0}} \cup
  {BadLine(c, m, Len(m)) : c \in BOOLEAN, m \in Matches \ {<<>>}}
\* the files: a path that cannot be opened, and every file of up to MaxLines
\* lines
ParseArgs ==
  {[op |-> "parseFoamFile", file |-> f] :
     f \in {None} \cup {<<l>> : l \in UNION {SeqsOf(FileLines, n) : n \in 0..MaxLines}}}

ParseInit ==
  /\ self = init(TRUE)
  /\ call = NoCall
  /\ args \in ParseArgs
  /\ ret = None

CallParseFoamFile ==
  /\ args.op = "parseFoamFile"
  /\ ret = None
  /\ ret' = <<parseFile(args.file)>>
  /\ UNCHANGED <<self, call, args>>

ParseNext == CallParseFoamFile

SpecParse == ParseInit /\ [][ParseNext]_vars

(* ------------- one construction without the mesh: SpecMesh ------------ *)
\* (viewAnchor, xViewBasis, yViewBasis): the view cases, and every y direction
\* against the x axis from every anchor
MeshViews ==
  ViewCases \cup {<<a, <<1, 0, 0>>, y>> : a \in TransAnchors, y \in Dir3}

MeshInit ==
  /\ self = init(FALSE)
  /\ call = NoCall
  /\ args = NoArgs
  /\ ret = None

\* the call with the arguments a ends as r
MeshReturns(a, r) ==
  /\ self' = r.self
  /\ call' = [call EXCEPT !.op = a.op, !.raised = r.raised, !.nCalls = @ + 1]
  /\ args' = a
  /\ UNCHANGED ret

MeshReadFromFoamFile ==
  /\ call.op = "__init__"
  /\ \E f \in FileCases, v \in MeshViews :
       MeshReturns([op |-> "readFromFoamFile", varsFile |-> f[1],
                    pointsFile |-> f[2], facesFile |-> f[3],
                    viewAnchor |-> v[1], xViewBasis |-> v[2], yViewBasis |-> v[3]],
                   readFromFoamFile(self, f[1], f[2], f[3], v[1], v[2], v[3]))

MeshConstructFromArray ==
  /\ call.op = "__init__"
  /\ \E c \in ArrayCases, fa \in FacesArrays, v \in MeshViews :
       MeshReturns([op |-> "constructFromArray", varsArray |-> c[1],
                    pointsArray |-> c[2], facesArray |-> fa,
                    viewAnchor |-> v[1], xViewBasis |-> v[2], yViewBasis |-> v[3]],
                   constructFromArray(self, c[1], c[2], fa, v[1], v[2], v[3]))

MeshNext == MeshReadFromFoamFile \/ MeshConstructFromArray

SpecMesh == MeshInit /\ [][MeshNext]_vars

(* ======================= claims about the geometry ===================== *)
Called(op) == ret # None /\ args.op = op
Res == ret[1]
TransOk == Called("genTransData") /\ Res.raised = "none"
PlaneOk == Called("genPlaneData") /\ Res.raised = "none"

IsCollinear(x, y) == \A i \in 1..3 : \A j \in 1..3 : x[i] * y[j] = x[j] * y[i]
FracVec(v) == [i \in 1..Len(v) |-> FracOfInt(v[i])]
Identity4 == [i \in 1..4 |-> [j \in 1..4 |-> FracOfInt(IF i = j THEN 1 ELSE 0)]]
Homog(p) == <<p[1], p[2], p[3], 1>>

\* an integer matrix times a vector of fractions
matIntVecFrac(M, w) ==
  [i \in 1..Len(M) |->
     FracSum([j \in 1..Len(w) |-> FracMul(FracOfInt(M[i][j]), w[j])])]

\* a matrix of fractions times an integer matrix
matMulFracInt(A, B) ==
  [i \in 1..Len(A) |-> [j \in 1..Len(B[1]) |->
     FracSum([k \in 1..Len(B) |-> FracMul(A[i][k], FracOfInt(B[k][j]))])]]

\* C1: whenever genTransData returns (T, invT), invT * (T * [p, 1]) = [p, 1]
\* for every point p, and T * invT is the 4x4 identity.
C1_RoundTrip ==
  TransOk =>
    /\ \A p \in Vec3 :
         matIntVecFrac(Res.value[1].invT, matVecFrac(Res.value[1].T, Homog(p)))
           = FracVec(Homog(p))
    /\ matMulFracInt(Res.value[1].T, Res.value[1].invT) = Identity4

\* a transform with a translation and with entries that are not integers
C1_Witness ==
  /\ TransOk
  /\ args.viewAnchor # <<0, 0, 0>>
  /\ \E i \in 1..4 : \E j \in 1..4 : Res.value[1].T[i][j][2] # 1

\* C2 (as claimed): a plane fit whose first three points are collinear fails
\* with DegeneratePlaneError and returns no plane equation.
C2_DegenerateRaises ==
  ( /\ Called("genPlaneData")
    /\ Len(args.points) >= 3
    /\ IsCollinear(vecSub(args.points[2], args.points[1]),
                   vecSub(args.points[3], args.points[1])) )
  => (Res.raised = "DegeneratePlaneError" /\ Res.value = None)

C5_PlaneFit ==
  (Called("genPlaneData") /\ Len(args.points) >= 3) =>
    LET p0 == args.points[1]
        a == vecSub(args.points[2], p0)
        b == vecSub(args.points[3], p0)
        n == <<a[2] * b[3] - a[3] * b[2], a[3] * b[1] - a[1] * b[3],
               a[1] * b[2] - a[2] * b[1]>>
        d == 0 - (n[1] * p0[1] + n[2] * p0[2] + n[3] * p0[3])
    IN  /\ Res.raised = "none"
        /\ Res.value = << <<n[1], n[2], n[3], d>> >>
        /\ SubSeq(args.points, 1, 3) = SubSeq(Flat, 1, 3) => Res.value = << <<0, 0, 1, 0>> >>

\* a fit of four points, the fourth off the plane of the first three, d # 0
C5_Witness ==
  /\ PlaneOk
  /\ Len(args.points) = 4
  /\ Res.value[1][4] # 0
  /\ dot(Res.value[1], Homog(args.points[4])) # 0

\* C6: each of the three fitting points lies on the plane returned:
\* a*p_x + b*p_y + c*p_z + d = 0.
C6_PlaneMembership ==
  PlaneOk =>
    \A i \in 1..3 :
      LET p == args.points[i]
          e == Res.value[1]
      IN  e[1] * p[1] + e[2] * p[2] + e[3] * p[3] + e[4] = 0

\* a plane with a non-zero normal that does not pass through the origin
C6_Witness ==
  /\ PlaneOk
  /\ SubSeq(Res.value[1], 1, 3) # <<0, 0, 0>>
  /\ Res.value[1][4] # 0

\* C8: T * [anchor, 1] = [0, 0, 0, 1], so a point equal to the anchor is
\* projected to (0,0); with xDir = (1,0,0), yDir = (0,1,0) the points
\* (0,0,0),(1,0,0),(0,1,0) are projected to (0,0),(1,0),(0,1) for the anchor
\* (0,0,0) and to (-1,0),(0,0),(-1,1) for the anchor (1,0,0).
C8_AnchorIsOrigin ==
  TransOk =>
    LET T == Res.value[1].T
        std == args.xViewBasis = <<1, 0, 0>> /\ args.yViewBasis = <<0, 1, 0>>
    IN  /\ matVecFrac(T, Homog(args.viewAnchor)) = FracVec(<<0, 0, 0, 1>>)
        /\ project(<<args.viewAnchor>>, T) = <<FracVec(<<0, 0>>)>>
        /\ (std /\ args.viewAnchor = <<0, 0, 0>>) =>
             project(SubSeq(Flat, 1, 3), T)
               = <<FracVec(<<0, 0>>), FracVec(<<1, 0>>), FracVec(<<0, 1>>)>>
        /\ (std /\ args.viewAnchor = <<1, 0, 0>>) =>
             project(SubSeq(Flat, 1, 3), T)
               = <<FracVec(<<-1, 0>>), FracVec(<<0, 0>>), FracVec(<<-1, 1>>)>>

\* the anchor-translation scenario of the spec has been computed
C8_Witness ==
  /\ TransOk
  /\ args.xViewBasis = <<1, 0, 0>>
  /\ args.yViewBasis = <<0, 1, 0>>
  /\ args.viewAnchor = <<1, 0, 0>>

(* ===================== claims about the construction =================== *)
Constructs == {"readFromFoamFile", "constructFromArray"}
Constructed == call.op \in Constructs /\ call.raised = "none"

\* the members a construction call sets, besides the three file names
Members(s) ==
  <<s.vars, s.varRank, s.points, s.faces, s.plDef, s.viewAnchor, s.viewBasis,
    s.affMat, s.invAffMat, s.xys>>

\* the point lists the construction calls are given
GivenPoints ==
  {c[2] : c \in ArrayCases} \cup
  {parseFoamFile(f[2]).value[1] : f \in {g \in FileCases : g[2] \in DOMAIN Files}}

\* C4 (as claimed): constructFromArray with len(varsArray) # len(pointsArray)
\* fails with DimensionMismatchError, and every constructed Surface that keeps
\* its mesh has len(vars) = len(points).
C4_MismatchRaises ==
  /\ (call.op = "constructFromArray" /\ call.nVars # call.nPoints)
       => call.raised = "DimensionMismatchError"
  /\ (Constructed /\ self.storeMesh = TRUE)
       => Len(self.vars[1]) = Len(self.points[1])

\* C7: after a construction that keeps the mesh, xys has one entry per point,
\* xys[i] is the first two components of affMat * [points[i], 1], and points
\* is the point list that was given.
C7_Projection ==
  (Constructed /\ self.storeMesh = TRUE) =>
    /\ self.xys # None /\ self.points # None /\ self.affMat # None
    /\ Len(self.xys[1]) = Len(self.points[1])
    /\ \A i \in 1..Len(self.points[1]) :
         LET q == matVecFrac(self.affMat[1], Homog(self.points[1][i]))
         IN  self.xys[1][i] = <<q[1], q[2]>>
    /\ self.points[1] \in GivenPoints
    /\ call.op = "constructFromArray" => Len(self.points[1]) = call.nPoints

\* four points projected with a basis that is not orthonormal: the last two
\* points get different view coordinates, one of them not an integer
C7_Witness ==
  /\ Constructed /\ self.storeMesh = TRUE
  /\ Len(self.xys[1]) = 4
  /\ self.xys[1][3] # self.xys[1][4]
  /\ \E i \in 1..4 : self.xys[1][i][1][2] # 1

\* C9 (as claimed): a construction call that fails leaves every member of the
\* object as it was before the call.
C9_NoPartialConstruction ==
  [][(call'.op \in Constructs /\ call'.raised # "none")
       => Members(self') = Members(self)]_vars

\* C10 (as claimed): readFromVTK and parseVTK end in a NotImplementedError.
C10_VTKRaises ==
  call.op \in {"readFromVTK", "parseVTK"} => call.raised = "NotImplementedError"

(* ===================== claims about the view basis ===================== *)
\* C14: genTransData returns a basisMatrix whose columns are xDir, yDir and
\* xDir x yDir as given, and an invT whose upper-left 3x3 block is basisMatrix,
\* whose last column is (anchor, 1) and whose last row is (0,0,0,1); the
\* points argument has no influence on what is returned.
C14_ViewBasis ==
  TransOk =>
    LET x == args.xViewBasis
        y == args.yViewBasis
        z == <<x[2] * y[3] - x[3] * y[2], x[3] * y[1] - x[1] * y[3],
               x[1] * y[2] - x[2] * y[1]>>
        B == Res.value[1].viewBasis
        invT == Res.value[1].invT
    IN  /\ \A i \in 1..3 : B[i] = <<x[i], y[i], z[i]>>
        /\ \A i \in 1..3 : \A j \in 1..3 : invT[i][j] = B[i][j]
        /\ \A i \in 1..3 : invT[i][4] = args.viewAnchor[i]
        /\ invT[4] = <<0, 0, 0, 1>>
        /\ \A p \in TransPts \ {args.points} :
             genTransData(p, args.viewAnchor, x, y) = Res

\* directions that are neither orthogonal nor of length one, an anchor that is
\* not the origin
C14_Witness ==
  /\ TransOk
  /\ args.xViewBasis[1] * args.yViewBasis[1] + args.xViewBasis[2] * args.yViewBasis[2]
       + args.xViewBasis[3] * args.yViewBasis[3] # 0
  /\ args.xViewBasis = <<1, 1, 0>>
  /\ args.viewAnchor # <<0, 0, 0>>
  /\ args.points = Tilted

(* ======================== claims about the parser ====================== *)
\* the rows the file holds when '//' lines are skipped: of the lines that do
\* not start with '//', those after the first one with exactly one number
\* that hold a number; counted says whether that first one has been passed
RECURSIVE DataRows(_, _)
DataRows(counted, lines) ==
  IF lines = <<>> THEN <<>>
  ELSE LET l == Head(lines)
       IN  IF l.comment THEN DataRows(counted, Tail(lines))
           ELSE IF ~counted /\ Len(l.match) = 1 THEN DataRows(TRUE, Tail(lines))
           ELSE IF counted /\ Len(l.match) > 0
                  THEN <<l.match>> \o DataRows(counted, Tail(lines))
           ELSE DataRows(counted, Tail(lines))

\* C11: parseFoamFile returns exactly the rows, in file order, of the lines
\* that do not start with '//', come after the count line (the first line
\* without '//' that holds exactly one number) and hold at least one number;
\* a '//' line is never the count line and never gives a row.
C11_CommentsSkipped ==
  (Called("parseFoamFile") /\ Res.raised = "none")
    => Res.value[1] = DataRows(FALSE, args.file[1])

\* C13: whenever parseFoamFile has opened the file, the handle is closed when
\* the call exits, on the normal return and on every exception.
C13_HandleClosed ==
  (Called("parseFoamFile") /\ Res.istream # "unopened")
    => Res.istream = "closed"

(* =================== claims about the unretained mesh ================== *)
\* a construction call has been made on the object without the mesh
MeshCalled == call.op \in Constructs /\ args.op = call.op /\ self.storeMesh = FALSE

\* the same call on an object built with storeMesh = True
Stored(a) ==
  IF a.op = "readFromFoamFile"
    THEN readFromFoamFile(init(TRUE), a.varsFile, a.pointsFile, a.facesFile,
                          a.viewAnchor, a.xViewBasis, a.yViewBasis)
    ELSE constructFromArray(init(TRUE), a.varsArray, a.pointsArray, a.facesArray,
                            a.viewAnchor, a.xViewBasis, a.yViewBasis)

SameDerived(s, t) ==
  /\ s.plDef = t.plDef
  /\ s.viewAnchor = t.viewAnchor
  /\ s.affMat = t.affMat
  /\ s.invAffMat = t.invAffMat
  /\ s.viewBasis = t.viewBasis

MeshUnset(s) == s.points = None /\ s.faces = None /\ s.xys = None

\* the call stopped where it reads the faces: points set, faces not
FailedOnFaces(t) ==
  t.raised # "none" /\ t.self.points # None /\ t.self.faces = None

\* C12 as stated: every construction call on an object with storeMesh = False
\* sets plDef, viewAnchor, affMat, invAffMat, viewBasis to what the same call
\* sets with storeMesh = True, and leaves points, faces, xys unset.
C12_SameAsStored ==
  MeshCalled => (SameDerived(self, Stored(args).self) /\ MeshUnset(self))

\* C12 amended: points, faces, xys stay unset; the call ends as the same call
\* with storeMesh = True ends, with the same five members, unless that call
\* fails reading the faces file, which this one never opens.
C12_SameUnlessFacesFail ==
  MeshCalled =>
    LET t == Stored(args)
    IN  /\ MeshUnset(self)
        /\ ~FailedOnFaces(t) => (call.raised = t.raised /\ SameDerived(self, t.self))
        /\ FailedOnFaces(t) => args.op = "readFromFoamFile"

C12_Witness ==
  /\ MeshCalled /\ call.raised = "none"
  /\ args.op = "readFromFoamFile"
  /\ self.viewAnchor # << <<0, 0, 0>> >>
  /\ self.invAffMat # None
  /\ Stored(args).self.xys # None

====
